---- MODULE Spec2Model ----
(***************************************************************************)
(* Model of app/routes/players.py: the five GET handlers of the players    *)
(* router.  Every handler is one action: it draws the query parameters and *)
(* what the upstream client returns, and sets the response the handler     *)
(* returns (or the exception it raises).  The server keeps no state from   *)
(* one request to the next.                                                *)
(***************************************************************************)
EXTENDS Integers, Sequences, FiniteSets, TLC

VARIABLES
    request,    \* the handler running/just run and its query parameters
    upstream,   \* what the upstream client returned to this request
                \* (a table as <<column index, rows>>)
    calls,      \* the upstream calls the handler made, in order
    response    \* what the handler returned or raised

vars == <<request, upstream, calls, response>>

----------------------------------------------------------------------------
(* Python values.  An Optional[T] is <<>> (None) or <<v>>.  A str whose    *)
(* characters matter (names, award descriptions) is a tuple of             *)
(* one-character strings; a str that is only compared for equality         *)
(* (season, season_type) is a TLA+ string.                                 *)

None == <<>>

Some(v) == <<v>>

\* bool(x) of an Optional[int]: None and 0 are falsy
TruthyInt(o) == o # None /\ o[1] # 0

\* bool(x) of an Optional[str]: None and "" are falsy
TruthyStr(o) == o # None /\ o[1] # ""

\* bool(x) of an Optional[str] held as a character tuple
TruthyChars(o) == o # None /\ o[1] # <<>>

\* the characters in code-point order (str comparison is by code point)
Alphabet ==
    << " ", "-", "0", "1", "2", "3", "4", "5", "6", "7", "8", "9",
       "A", "B", "C", "D", "E", "F", "G", "H", "I", "J", "K", "L", "M",
       "N", "O", "P", "Q", "R", "S", "T", "U", "V", "W", "X", "Y", "Z",
       "_",
       "a", "b", "c", "d", "e", "f", "g", "h", "i", "j", "k", "l", "m",
       "n", "o", "p", "q", "r", "s", "t", "u", "v", "w", "x", "y", "z",
       "|" >>

\* ord(c), up to the order
OrdOf == [c \in {Alphabet[i] : i \in 1..Len(Alphabet)} |->
            CHOOSE i \in 1..Len(Alphabet) : Alphabet[i] = c]

Ord(c) == OrdOf[c]

FirstUpper == Ord("A")

FirstLower == Ord("a")

\* str.lower() on one character
LowerChar(c) ==
    IF Ord(c) >= FirstUpper /\ Ord(c) <= Ord("Z")
    THEN Alphabet[Ord(c) - FirstUpper + FirstLower]
    ELSE c

\* str.lower()
Lower(s) == [i \in 1..Len(s) |-> LowerChar(s[i])]

\* `sub in s` for two str
Contains(s, sub) ==
    \E i \in 0..(Len(s) - Len(sub)) :
        \A j \in 1..Len(sub) : s[i + j] = sub[j]

\* a < b for two str
StrLess(a, b) ==
    \E k \in 1..(Len(b)) :
        /\ k <= Len(a) + 1
        /\ \A j \in 1..(k - 1) : a[j] = b[j]
        /\ (k = Len(a) + 1 \/ Ord(a[k]) < Ord(b[k]))

Max(a, b) == IF a >= b THEN a ELSE b

Min(a, b) == IF a <= b THEN a ELSE b

\* the position a slice bound i denotes in a sequence of length n
SliceBound(i, n) == IF i < 0 THEN Max(i + n, 0) ELSE Min(i, n)

\* s[start:stop] for a list s and two ints
PySlice(s, start, stop) ==
    LET lo == SliceBound(start, Len(s))
        hi == SliceBound(stop, Len(s))
    IN  IF lo < hi THEN SubSeq(s, lo + 1, hi) ELSE <<>>

\* all sequences over S of length at most n
SeqUpTo(S, n) == UNION {[1..k -> S] : k \in 0..n}

----------------------------------------------------------------------------
(* Responses.                                                              *)

NoResponse == [status |-> 0]

Ok(body) == [status |-> 200, body |-> body]

\* raise HTTPException(status_code=code, detail=...)
HTTPException(code, detail) == [status |-> code, detail |-> detail]

\* an exception the handler does not catch
Unhandled(exc) == [status |-> 500, exc |-> exc]

NoRequest == [handler |-> "none"]

Init ==
    /\ request = NoRequest
    /\ upstream = <<>>
    /\ calls = <<>>
    /\ response = NoResponse

\* The router is idle again once the response is sent; nothing is kept.
Idle ==
    /\ response # NoResponse
    /\ request' = NoRequest
    /\ upstream' = <<>>
    /\ calls' = <<>>
    /\ response' = NoResponse

----------------------------------------------------------------------------
(* GET /players                                                            *)

MaxPlayers == 3

MaxIndex == 2

DefaultPageSize == 10

Al == <<"A", "l">>

Ala == <<"a", "L", "a">>

Bo == <<"B", "o">>

Players ==
    { [id |-> 1, full_name |-> Al],
      [id |-> 2, full_name |-> Ala],
      [id |-> 3, full_name |-> Bo] }

\* what one roster fetch may return: no player twice
Rosters ==
    {r \in SeqUpTo(Players, MaxPlayers) :
        \A i, j \in 1..Len(r) : i # j => r[i].id # r[j].id}

NameFilters ==
    {None, Some(<<>>), Some(<<"a", "l">>), Some(<<"L", "A">>),
     Some(<<"B">>), Some(<<"z">>)}

OptIndex == {None} \cup {Some(i) : i \in (-1)..MaxIndex}

PageSizes == (1..MaxIndex) \cup {DefaultPageSize}

\* the name test without its two lower() calls
NameMatchesCaseSensitive(player_name, p) == Contains(p.full_name, player_name)

\* lambda p: player_name.lower() in p["full_name"].lower()
NameMatches(player_name, p) == Contains(Lower(p.full_name), Lower(player_name))

\* list(filter(lambda p: ..., players))
RECURSIVE FilterByName(_, _)
FilterByName(player_name, players) ==
    IF players = <<>> THEN <<>>
    ELSE LET rest == FilterByName(player_name, Tail(players))
         IN  IF NameMatches(player_name, Head(players))
             THEN <<Head(players)>> \o rest
             ELSE rest

RosterCall(is_active) ==
    IF is_active = Some(TRUE) THEN "get_active_players"
    ELSE IF is_active = Some(FALSE) THEN "get_inactive_players"
    ELSE "get_all_players"

NameStep(player_name, players) ==
    IF TruthyChars(player_name) THEN FilterByName(player_name[1], players) ELSE players

LimitStep(limit, players) ==
    IF TruthyInt(limit) THEN PySlice(players, 0, limit[1]) ELSE players

\* `page or 1`
PageOrOne(page) == IF TruthyInt(page) THEN page[1] ELSE 1

PageStep(page, pageSize, players) ==
    IF TruthyInt(page)
    THEN PySlice(players, (PageOrOne(page) - 1) * pageSize,
                 PageOrOne(page) * pageSize)
    ELSE players

get_players ==
    /\ response = NoResponse
    /\ \E is_active \in {None, Some(TRUE), Some(FALSE)}, player_name \in NameFilters,
          limit \in OptIndex, page \in OptIndex, pageSize \in PageSizes,
          fetched \in Rosters :
        /\ request' = [handler |-> "get_players", is_active |-> is_active,
                       player_name |-> player_name, limit |-> limit,
                       page |-> page, pageSize |-> pageSize]
        /\ upstream' = fetched
        /\ calls' = <<RosterCall(is_active)>>
        /\ response' =
             Ok(PageStep(page, pageSize,
                  LimitStep(limit, NameStep(player_name, fetched))))

NextRoster == get_players \/ Idle

SpecRoster == Init /\ [][NextRoster]_vars

\* the elements of s at the 0-based positions a .. b-1 that exist
IndexWindow(s, a, b) == SubSeq(s, Max(a, 0) + 1, Min(b, Len(s)))

\* C5: a roster request with limit = L and no page returns at most L players,
\* for every L that can bound a length, 0 included.
LimitBoundsLength ==
    (request.handler = "get_players" /\ request.limit # None /\ request.page = None
        /\ request.limit[1] >= 0)
        => Len(response.body) <= request.limit[1]

\* C6: with page given, the result is the window [(p-1)*pageSize, p*pageSize)
\* of the list left by source selection, name filter and limit, p being the
\* page and a zero page counting as page 1.
PageIsWindowOfLimited ==
    (request.handler = "get_players" /\ request.page # None /\ request.page[1] >= 0)
        => LET p == IF request.page[1] = 0 THEN 1 ELSE request.page[1]
               limited == LimitStep(request.limit, NameStep(request.player_name, upstream))
           IN  response.body =
                 IndexWindow(limited, (p - 1) * request.pageSize, p * request.pageSize)

----------------------------------------------------------------------------
(* Data frames.  A frame is its column index (the names, in order) and    *)
(* its rows, each row the values in column order.  A float is              *)
(* [kind, tenths] (the value times ten, after round(1)), or inf, or nan.   *)

MaxRows == 2

PLAYER_ID == <<"P", "L", "A", "Y", "E", "R", "_", "I", "D">>

SEASON_ID == <<"S", "E", "A", "S", "O", "N", "_", "I", "D">>

GP == <<"G", "P">>

PTS == <<"P", "T", "S">>

col_player_id == <<"p", "l", "a", "y", "e", "r", "_", "i", "d">>

col_season_id == <<"s", "e", "a", "s", "o", "n", "_", "i", "d">>

col_gp == <<"g", "p">>

per_game_suffix == <<"_", "p", "e", "r", "_", "g", "a", "m", "e">>

stats_columns ==
    << <<"p", "t", "s">>,
       <<"r", "e", "b">>,
       <<"a", "s", "t">>,
       <<"s", "t", "l">>,
       <<"b", "l", "k">>,
       <<"t", "o", "v">>,
       <<"f", "g", "m">>,
       <<"f", "g", "a">>,
       <<"f", "g", "3", "m">>,
       <<"f", "g", "3", "a">>,
       <<"f", "t", "m">>,
       <<"f", "t", "a">> >>

\* the columns an upstream table may carry
UpstreamColumns == {PLAYER_ID, SEASON_ID, GP, PTS}

SeasonIds == {"2020-21", "2021-22"}

GpValues == {0, 2}

PtsValues == {0, 3}

PlayerIdValues == {2544}

\* the columns of UpstreamColumns that are in cols, in the upstream's order
ColumnOrder == <<PLAYER_ID, SEASON_ID, GP, PTS>>

RECURSIVE Restrict(_, _)
Restrict(order, cols) ==
    IF order = <<>> THEN <<>>
    ELSE IF Head(order) \in cols
         THEN <<Head(order)>> \o Restrict(Tail(order), cols)
         ELSE Restrict(Tail(order), cols)

\* the values a column may hold
ValuesOf(c) ==
    CASE c = PLAYER_ID -> PlayerIdValues
      [] c = SEASON_ID -> SeasonIds
      [] c = GP -> GpValues
      [] c = PTS -> PtsValues

\* the rows a table with these columns may hold
RECURSIVE RowsOver(_)
RowsOver(columns) ==
    IF columns = <<>> THEN {<<>>}
    ELSE {<<v>> \o rest : v \in ValuesOf(Head(columns)), rest \in RowsOver(Tail(columns))}

\* the column index one get_data_frame() may return
FrameColumns == {Restrict(ColumnOrder, cols) : cols \in SUBSET UpstreamColumns}

\* the rows it may return under that index, each row the values in column order
FrameRows(columns) == SeqUpTo(RowsOver(columns), MaxRows)

\* col in df.columns
HasColumn(df, col) == \E i \in 1..Len(df.columns) : df.columns[i] = col

\* df.columns.get_loc(col)
ColumnIndex(df, col) == CHOOSE i \in 1..Len(df.columns) : df.columns[i] = col

RECURSIVE LowerAll(_)
LowerAll(names) ==
    IF names = <<>> THEN <<>> ELSE <<Lower(Head(names))>> \o LowerAll(Tail(names))

\* df.columns = df.columns.str.lower()
LowerColumns(df) == [df EXCEPT !.columns = LowerAll(df.columns)]

\* df[df[col] == value], col being the column at position k
RECURSIVE RowsWhere(_, _, _)
RowsWhere(rows, k, value) ==
    IF rows = <<>> THEN <<>>
    ELSE LET rest == RowsWhere(Tail(rows), k, value)
         IN  IF Head(rows)[k] = value THEN <<Head(rows)>> \o rest ELSE rest

\* df[col].sum(), col being the column at position k
RECURSIVE ColumnSum(_, _)
ColumnSum(rows, k) ==
    IF rows = <<>> THEN 0 ELSE Head(rows)[k] + ColumnSum(Tail(rows), k)

Float(tenths) == [kind |-> "float", tenths |-> tenths]

Inf == [kind |-> "inf"]

NaN == [kind |-> "nan"]

Null == [kind |-> "null"]

\* round(x, 1) of x = num / den, den > 0, in tenths: half goes to even
RoundTenths(num, den) ==
    LET q == (10 * num) \div den
        r == (10 * num) % den
    IN  IF 2 * r > den THEN q + 1
        ELSE IF 2 * r < den THEN q
        ELSE IF q % 2 = 0 THEN q ELSE q + 1

\* (df[stat] / df["gp"]).round(1) on one row: a zero divisor gives inf or nan
PerGame(stat, gp) ==
    IF gp # 0 THEN Float(RoundTenths(stat, gp))
    ELSE IF stat = 0 THEN NaN ELSE Inf

\* df[new] = (df[stat] / df["gp"]).round(1): a column appended to every row
RECURSIVE WithPerGame(_, _, _)
WithPerGame(rows, stat_k, gp_k) ==
    IF rows = <<>> THEN <<>>
    ELSE <<Append(Head(rows), PerGame(Head(rows)[stat_k], Head(rows)[gp_k]))>>
         \o WithPerGame(Tail(rows), stat_k, gp_k)

\* lines 138-140, from the k-th stat of stats_columns on
RECURSIVE AddPerGameFrom(_, _)
AddPerGameFrom(df, k) ==
    IF k > Len(stats_columns) THEN df
    ELSE IF HasColumn(df, stats_columns[k])
         THEN AddPerGameFrom(
                [columns |-> Append(df.columns, stats_columns[k] \o per_game_suffix),
                 rows |-> WithPerGame(df.rows, ColumnIndex(df, stats_columns[k]),
                                      ColumnIndex(df, col_gp))],
                k + 1)
         ELSE AddPerGameFrom(df, k + 1)

AddPerGame(df) == AddPerGameFrom(df, 1)

\* df.drop(columns=[col]).to_dict(orient="records"): one dict per row
ToRecords(df, col) ==
    LET keep == {i \in 1..Len(df.columns) : df.columns[i] # col}
        pos(c) == CHOOSE i \in keep : df.columns[i] = c
    IN  [r \in 1..Len(df.rows) |->
            [c \in {df.columns[i] : i \in keep} |-> df.rows[r][pos(c)]]]

\* the names f"{stat}_per_game"
PerGameColumns ==
    {stats_columns[k] \o per_game_suffix : k \in 1..Len(stats_columns)}

\* clean_nan(records): NaN becomes null; what it does to inf is cleans_inf
clean_nan(records, cleans_inf) ==
    [i \in 1..Len(records) |->
        [c \in DOMAIN records[i] |->
            IF c \in PerGameColumns
            THEN IF records[i][c] = NaN \/ (cleans_inf /\ records[i][c] = Inf)
                 THEN Null
                 ELSE records[i][c]
            ELSE records[i][c]]]

\* JSONResponse(content=...) refuses a float that is not finite
HasNonFinite(records) ==
    \E i \in 1..Len(records) : \E c \in DOMAIN records[i] :
        /\ c \in PerGameColumns
        /\ records[i][c] \in {Inf, NaN}

----------------------------------------------------------------------------
(* GET /players/stats/career/{player_id}                                   *)

CareerPlayerIds == {"", "2544"}

CareerSeasons == {None, Some(""), Some("All"), Some("2020-21"), Some("1999-00")}

CareerSeasonTypes == {None, Some("Regular Season"), Some("Pre Season"), Some("Playoffs")}

CareerPages == {None, Some(2)}

CareerPageSizes == {1, DefaultPageSize}

\* the selection without its test of season
DatasetForSeasonTypeOnly(season, season_type) ==
    IF season_type = Some("Playoffs")
    THEN "career_totals_post_season"
    ELSE "career_totals_regular_season"

\* lines 94-103: the data set of player_totals that is read
DatasetFor(season, season_type) ==
    IF season # Some("All")
    THEN IF season_type = Some("Playoffs")
         THEN "career_totals_post_season"
         ELSE "career_totals_regular_season"
    ELSE IF season_type = Some("Playoffs")
         THEN "season_totals_post_season"
         ELSE "season_totals_regular_season"

\* `season and season != "All"`
SeasonIsConcrete(season) == TruthyStr(season) /\ season # Some("All")

\* "totals" if season != "All" else "seasons"
CareerBody(season, season_type, records) ==
    LET st == IF season_type # None THEN season_type[1] ELSE "Regular Season"
    IN  IF season # Some("All")
        THEN [season_type |-> st, totals |-> records]
        ELSE [season_type |-> st, seasons |-> records]

\* the guard without its test of the sum
NoGamesColumnOnly(df) == ~HasColumn(df, col_gp)

\* `"gp" not in df.columns or df["gp"].sum() == 0`
NoGames(df) ==
    \/ ~HasColumn(df, col_gp)
    \/ ColumnSum(df.rows, ColumnIndex(df, col_gp)) = 0

\* lines 142-145
CareerPage(page, page_size, df) ==
    IF TruthyInt(page)
    THEN [df EXCEPT !.rows =
            PySlice(df.rows, (page[1] - 1) * page_size,
                    (page[1] - 1) * page_size + page_size)]
    ELSE df

\* lines 115-157, on the frame that survived the season filter
CareerTail(season_type, season, page, page_size, df, cleans_inf) ==
    IF NoGames(df) THEN Ok(CareerBody(season, season_type, <<>>))
    ELSE LET paged == CareerPage(page, page_size, AddPerGame(df))
         IN  IF ~HasColumn(paged, col_player_id) THEN Unhandled("KeyError")
             ELSE LET safe_data == clean_nan(ToRecords(paged, col_player_id), cleans_inf)
                  IN  IF HasNonFinite(safe_data) THEN Unhandled("ValueError")
                      ELSE Ok(CareerBody(season, season_type, safe_data))

\* lines 105-157, on the frame of the data set that was read
CareerResponse(season_type, season, page, page_size, raw, cleans_inf) ==
    LET df == LowerColumns(raw)
    IN  IF SeasonIsConcrete(season)
        THEN IF ~HasColumn(df, col_season_id) THEN Unhandled("KeyError")
             ELSE LET kept == [df EXCEPT !.rows = RowsWhere(df.rows, ColumnIndex(df, col_season_id), season[1])]
                  IN  IF kept.rows = <<>>
                      THEN HTTPException(404, <<"No season stats found for this player in season", season[1]>>)
                      ELSE CareerTail(season_type, season, page, page_size, kept, cleans_inf)
        ELSE CareerTail(season_type, season, page, page_size, df, cleans_inf)

get_player_career_stats ==
    /\ response = NoResponse
    /\ \E player_id \in CareerPlayerIds, season_type \in CareerSeasonTypes,
          season \in CareerSeasons, page \in CareerPages,
          page_size \in CareerPageSizes :
        /\ request' = [handler |-> "get_player_career_stats", player_id |-> player_id,
                       season_type |-> season_type, season |-> season,
                       page |-> page, page_size |-> page_size]
        /\ IF player_id = ""
           THEN /\ upstream' = <<>>
                /\ calls' = <<>>
                /\ response' = HTTPException(400, "Param player_id is required")
           ELSE \E columns \in FrameColumns, cleans_inf \in BOOLEAN :
                \E rows \in FrameRows(columns) :
                /\ upstream' = <<columns, rows>>
                /\ calls' = <<"get_player_carrer_totals", DatasetFor(season, season_type)>>
                /\ response' = CareerResponse(season_type, season, page, page_size,
                                              [columns |-> columns, rows |-> rows],
                                              cleans_inf)

NextCareer == get_player_career_stats \/ Idle

SpecCareer == Init /\ [][NextCareer]_vars

\* the table the request read, as the upstream sent it
FetchedColumns == upstream[1]

FetchedRows == upstream[2]

FetchedHas(col) == \E i \in 1..Len(FetchedColumns) : FetchedColumns[i] = col

FetchedIndex(col) == CHOOSE i \in 1..Len(FetchedColumns) : FetchedColumns[i] = col

CareerRan == request.handler = "get_player_career_stats" /\ request.player_id # ""

\* the season asked for is a concrete one: given, not empty, not "All"
ConcreteSeason == request.season \notin {None, Some(""), Some("All")}

\* the positions of the rows that survive the season filter
SurvivingRows ==
    IF ConcreteSeason
    THEN {i \in 1..Len(FetchedRows) :
             FetchedHas(SEASON_ID) /\ FetchedRows[i][FetchedIndex(SEASON_ID)] = request.season[1]}
    ELSE 1..Len(FetchedRows)

\* the list under "totals" or "seasons" of a career response
CareerRecords == 
    IF "totals" \in DOMAIN response.body THEN response.body.totals ELSE response.body.seasons

DatasetNames ==
    {"career_totals_post_season", "career_totals_regular_season",
     "season_totals_post_season", "season_totals_regular_season"}

\* C1: the data set read is the one the branch table gives for
\* (season, seasonType), and exactly one of the four is read.
DatasetFollowsTable ==
    CareerRan =>
        LET all == request.season = Some("All")
            playoffs == request.season_type = Some("Playoffs")
            read == {i \in 1..Len(calls) : calls[i] \in DatasetNames}
        IN  /\ Cardinality(read) = 1
            /\ \A i \in read :
                 calls[i] = CASE ~all /\ playoffs -> "career_totals_post_season"
                              [] ~all /\ ~playoffs -> "career_totals_regular_season"
                              [] all /\ playoffs -> "season_totals_post_season"
                              [] all /\ ~playoffs -> "season_totals_regular_season"

DatasetFollowsTableWitness ==
    /\ CareerRan
    /\ request.season = Some("All")
    /\ request.season_type = Some("Pre Season")
    /\ calls = <<"get_player_carrer_totals", "season_totals_regular_season">>

\* C2: a concrete season that no row of the selected data set carries gives
\* 404, whatever the season type and the gp column; never anything else.
MissingSeasonIs404 ==
    (CareerRan /\ ConcreteSeason /\ SurvivingRows = {}) => response.status = 404

\* C3: a record of a successful response that carries a _per_game field has
\* gp > 0 in that same record.
PerGameOnlyWithGames ==
    (CareerRan /\ response.status = 200) =>
        \A i \in 1..Len(CareerRecords) :
            (DOMAIN CareerRecords[i] \cap PerGameColumns # {})
                => (col_gp \in DOMAIN CareerRecords[i] /\ CareerRecords[i][col_gp] > 0)

\* the season filter let the request through to the zero-games guard
ReachedGamesGuard == ConcreteSeason => SurvivingRows # {}

\* gp is absent from the surviving rows, or sums to zero across them
NoGamesPlayed ==
    \/ ~FetchedHas(GP)
    \/ \A i \in SurvivingRows : FetchedRows[i][FetchedIndex(GP)] = 0

----------------------------------------------------------------------------
(* GET /players/player/info                                                *)

LookupIds == {None, Some(0), Some(1), Some(2)}

PERSON_ID == <<"P", "E", "R", "S", "O", "N", "_", "I", "D">>

\* what get_player_info(id) returns: one dict of the player's common info
PlayerInfo(id) ==
    [c \in {PERSON_ID} |-> id]

\* [get_player_info(player["id"]) for player in filtered_players]
RECURSIVE PlayerInfos(_)
PlayerInfos(players) ==
    IF players = <<>> THEN <<>>
    ELSE <<PlayerInfo(Head(players).id)>> \o PlayerInfos(Tail(players))

\* pd.DataFrame(player_infos) with lower-cased columns, .to_dict("records")
InfoRecords(infos) ==
    [i \in 1..Len(infos) |->
        [l \in {Lower(c) : c \in DOMAIN infos[i]} |->
            infos[i][CHOOSE c \in DOMAIN infos[i] : Lower(c) = l]]]

\* one "get_player_info" per player looked up
InfoCalls(players) == [i \in 1..Len(players) |-> "get_player_info"]

get_player_common_info ==
    /\ response = NoResponse
    /\ \E player_id \in LookupIds, player_name \in NameFilters :
        /\ request' = [handler |-> "get_player_common_info", player_id |-> player_id,
                       player_name |-> player_name]
        /\ IF ~TruthyInt(player_id) /\ ~TruthyChars(player_name)
           THEN /\ upstream' = <<>>
                /\ calls' = <<>>
                /\ response' = HTTPException(400, "Either player_id or player_name must be provided")
           ELSE IF TruthyInt(player_id)
           THEN /\ upstream' = <<>>
                /\ calls' = <<"get_player_info">>
                /\ response' = Ok([player_id |-> player_id[1],
                                   player_info |-> PlayerInfo(player_id[1])])
           ELSE \E all_players \in Rosters :
                LET filtered_players == FilterByName(player_name[1], all_players)
                IN  /\ upstream' = all_players
                    /\ IF filtered_players = <<>>
                       THEN /\ calls' = <<"get_all_players">>
                            /\ response' = HTTPException(404, "No players found with that name")
                       ELSE /\ calls' = <<"get_all_players">> \o InfoCalls(filtered_players)
                            /\ response' = Ok(InfoRecords(PlayerInfos(filtered_players)))

NextLookup == get_player_common_info \/ Idle

SpecLookup == Init /\ [][NextLookup]_vars

LookupRan == request.handler = "get_player_common_info"

\* some player of the roster that was fetched has the name in its full_name,
\* letter case apart
SomeNameMatch ==
    \E i \in 1..Len(upstream) :
        Contains(Lower(upstream[i].full_name), Lower(request.player_name[1]))

\* C9, as stated: 400 exactly when neither id nor name is given, 404 exactly
\* when only the name is given and no full_name contains it; player data
\* otherwise, by the per-id fetch alone when the id is given.
LookupErrorsAsStated ==
    LookupRan =>
        /\ response.status = 400
             <=> (request.player_id = None /\ request.player_name = None)
        /\ response.status = 404
             <=> (request.player_id = None /\ request.player_name # None
                  /\ ~SomeNameMatch)
        /\ response.status \in {200, 400, 404}
        /\ request.player_id # None => calls = <<"get_player_info">>

\* C9, amended: an id of 0 and an empty name count as not given.
LookupErrors ==
    LookupRan =>
        LET idGiven == request.player_id # None /\ request.player_id[1] # 0
            nameGiven == request.player_name # None /\ request.player_name[1] # <<>>
        IN  /\ response.status = 400 <=> (~idGiven /\ ~nameGiven)
            /\ response.status = 404 <=> (~idGiven /\ nameGiven /\ ~SomeNameMatch)
            /\ response.status \in {200, 400, 404}
            /\ idGiven =>
                 /\ calls = <<"get_player_info">>
                 /\ response.status = 200
                 /\ response.body.player_id = request.player_id[1]
            /\ (~idGiven /\ nameGiven /\ SomeNameMatch) =>
                 /\ response.status = 200
                 /\ Len(response.body) =
                      Cardinality({i \in 1..Len(upstream) :
                         Contains(Lower(upstream[i].full_name),
                                  Lower(request.player_name[1]))})

\* a name in another letter case than the roster's finds its players
LookupErrorsWitness ==
    /\ LookupRan
    /\ request.player_id = None
    /\ request.player_name = Some(<<"a", "l">>)
    /\ upstream = <<[id |-> 3, full_name |-> Bo], [id |-> 1, full_name |-> Al]>>
    /\ response.status = 200
    /\ Len(response.body) = 1

----------------------------------------------------------------------------
(* GET /players/player/awards                                              *)

MaxAwards == 3

AllStarSelection == <<"A", "l", "l", "-", "S", "t", "a", "r", " ", "S", "e", "l", "e", "c", "t", "i", "o", "n">>

MostValuablePlayer == <<"N", "B", "A", " ", "M", "o", "s", "t", " ", "V", "a", "l", "u", "a", "b", "l", "e", " ", "P", "l", "a", "y", "e", "r">>

AllStarAllDefensive == <<"A", "l", "l", "-", "S", "t", "a", "r", " ", "A", "l", "l", "-", "D", "e", "f", "e", "n", "s", "i", "v", "e">>

PlayerOfTheWeek == <<"N", "B", "A", " ", "P", "l", "a", "y", "e", "r", " ", "o", "f", " ", "t", "h", "e", " ", "W", "e", "e", "k">>

GoldMedal == <<"O", "l", "y", "m", "p", "i", "c", " ", "G", "o", "l", "d", " ", "M", "e", "d", "a", "l">>

\* the award records the upstream may return; one has no description
Awards ==
    {[description |-> d, season |-> "2012-13"] :
        d \in {AllStarSelection, MostValuablePlayer, AllStarAllDefensive,
               PlayerOfTheWeek, GoldMedal}}
    \cup {[season |-> "2012-13"]}

AwardLists == SeqUpTo(Awards, MaxAwards)

AwardPlayerIds == {None, Some(0), Some(999)}

\* award.get("description", "")
Description(award) ==
    IF "description" \in DOMAIN award THEN award.description ELSE <<>>

\* the chain of tests with its first two swapped
award_type_star_first(description) ==
    IF Contains(description, <<"A", "l", "l", "-", "S", "t", "a", "r">>)
    THEN <<"N", "B", "A", " ", "A", "l", "l", "-", "S", "t", "a", "r">>
    ELSE IF Contains(description, <<"A", "l", "l", "-", "D", "e", "f", "e", "n", "s", "i", "v", "e">>)
    THEN <<"A", "l", "l", "-", "D", "e", "f", "e", "n", "s", "i", "v", "e", " ", "T", "e", "a", "m">>
    ELSE IF Contains(description, <<"P", "l", "a", "y", "e", "r", " ", "o", "f", " ", "t", "h", "e", " ", "W", "e", "e", "k">>)
    THEN <<"N", "B", "A", " ", "P", "l", "a", "y", "e", "r", " ", "o", "f", " ", "t", "h", "e", " ", "W", "e", "e", "k">>
    ELSE IF Contains(description, <<"G", "o", "l", "d", " ", "M", "e", "d", "a", "l">>)
    THEN <<"O", "l", "y", "m", "p", "i", "c", " ", "G", "o", "l", "d", " ", "M", "e", "d", "a", "l">>
    ELSE description

\* lines 233-242
award_type(description) ==
    IF Contains(description, <<"A", "l", "l", "-", "D", "e", "f", "e", "n", "s", "i", "v", "e">>)
    THEN <<"A", "l", "l", "-", "D", "e", "f", "e", "n", "s", "i", "v", "e", " ", "T", "e", "a", "m">>
    ELSE IF Contains(description, <<"A", "l", "l", "-", "S", "t", "a", "r">>)
    THEN <<"N", "B", "A", " ", "A", "l", "l", "-", "S", "t", "a", "r">>
    ELSE IF Contains(description, <<"P", "l", "a", "y", "e", "r", " ", "o", "f", " ", "t", "h", "e", " ", "W", "e", "e", "k">>)
    THEN <<"N", "B", "A", " ", "P", "l", "a", "y", "e", "r", " ", "o", "f", " ", "t", "h", "e", " ", "W", "e", "e", "k">>
    ELSE IF Contains(description, <<"G", "o", "l", "d", " ", "M", "e", "d", "a", "l">>)
    THEN <<"O", "l", "y", "m", "p", "i", "c", " ", "G", "o", "l", "d", " ", "M", "e", "d", "a", "l">>
    ELSE description

\* award_counts[key] += 1 on a defaultdict(int), kept as the items() of the
\* dict: <<key, count>> pairs in order of first insertion
Increment(items, key) ==
    IF \E i \in 1..Len(items) : items[i][1] = key
    THEN [i \in 1..Len(items) |->
            IF items[i][1] = key THEN <<key, items[i][2] + 1>> ELSE items[i]]
    ELSE Append(items, <<key, 1>>)

\* the loop of lines 230-246, over the awards from position k on
RECURSIVE CountFrom(_, _, _)
CountFrom(raw_awards, k, items) ==
    IF k > Len(raw_awards) THEN items
    ELSE CountFrom(raw_awards, k + 1,
                   Increment(items, award_type(Description(raw_awards[k]))))

award_counts(raw_awards) == CountFrom(raw_awards, 1, <<>>)

\* key=lambda x: (-x[1], x[0]) of one item is less than that of another
KeyLess(x, y) ==
    \/ -x[2] < -y[2]
    \/ (x[2] = y[2] /\ StrLess(x[1], y[1]))

\* one item put into an already sorted list, after the items not greater
RECURSIVE InsertSorted(_, _)
InsertSorted(x, items) ==
    IF items = <<>> THEN <<x>>
    ELSE IF KeyLess(x, Head(items))
         THEN <<x>> \o items
         ELSE <<Head(items)>> \o InsertSorted(x, Tail(items))

\* sorted(award_counts.items(), key=...): a stable sort
RECURSIVE Sorted(_)
Sorted(items) ==
    IF items = <<>> THEN <<>>
    ELSE InsertSorted(items[Len(items)], Sorted(SubSeq(items, 1, Len(items) - 1)))

Digits == <<"0", "1", "2", "3", "4", "5", "6", "7", "8", "9">>

\* f"{count}" of a count >= 0
RECURSIVE IntToStr(_)
IntToStr(n) ==
    IF n < 10 THEN <<Digits[n + 1]>>
    ELSE IntToStr(n \div 10) \o <<Digits[(n % 10) + 1]>>

\* sep.join(strs)
RECURSIVE Join(_, _)
Join(sep, strs) ==
    IF strs = <<>> THEN <<>>
    ELSE IF Len(strs) = 1 THEN strs[1]
    ELSE strs[1] \o sep \o Join(sep, Tail(strs))

\* lines 250-257
summary(items) ==
    LET sorted == Sorted(items)
    IN  Join(<<" ", "|", " ">>,
             [i \in 1..Len(sorted) |->
                IntToStr(sorted[i][2]) \o <<" ">> \o sorted[i][1]])

\* a JSON body, with the Python type it was made from
JsonStr(s) == <<"str", s>>

JsonDict(d) == <<"dict", d>>

\* response_model=dict on a returned value that is no Response: a dict is
\* sent as it is; a str is no dict, and is either refused or, when the
\* validation in use coerces with dict(value), sent as dict("") = {}
ReturnedUnderDictModel(body, coerces) ==
    IF body[1] = "dict" THEN Ok(body)
    ELSE IF coerces /\ body[2] = <<>> THEN Ok(JsonDict([keys |-> {}]))
    ELSE Unhandled("ResponseValidationError")

fetch_player_awards ==
    /\ response = NoResponse
    /\ \E player_id \in AwardPlayerIds, detailed \in BOOLEAN :
        /\ request' = [handler |-> "fetch_player_awards", player_id |-> player_id,
                       detailed |-> detailed]
        /\ IF ~TruthyInt(player_id)
           THEN /\ upstream' = <<>>
                /\ calls' = <<>>
                /\ response' = HTTPException(400, "Missing required parameter: player_id")
           ELSE \E raw_awards \in AwardLists, coerces \in BOOLEAN :
                /\ upstream' = raw_awards
                /\ calls' = <<"get_player_awards">>
                /\ response' =
                     IF raw_awards = <<>>
                     THEN ReturnedUnderDictModel(
                            IF detailed
                            THEN JsonDict([summary |-> <<>>, details |-> <<>>])
                            ELSE JsonStr(<<>>), coerces)
                     ELSE IF ~detailed
                     THEN Ok(JsonStr(summary(award_counts(raw_awards))))
                     ELSE ReturnedUnderDictModel(
                            JsonDict([summary |-> summary(award_counts(raw_awards)),
                                      details |-> raw_awards]), coerces)

NextAwards == fetch_player_awards \/ Idle

SpecAwards == Init /\ [][NextAwards]_vars

AwardsFetched ==
    /\ request.handler = "fetch_player_awards"
    /\ calls = <<"get_player_awards">>

\* the description of the i-th raw award, "" when it has none
RawDescription(i) ==
    IF "description" \in DOMAIN upstream[i] THEN upstream[i].description ELSE <<>>

\* the category of a description by the first rule that matches
RuleCategory(d) ==
    CASE Contains(d, <<"A", "l", "l", "-", "D", "e", "f", "e", "n", "s", "i", "v", "e">>) -> <<"A", "l", "l", "-", "D", "e", "f", "e", "n", "s", "i", "v", "e", " ", "T", "e", "a", "m">>
      [] ~Contains(d, <<"A", "l", "l", "-", "D", "e", "f", "e", "n", "s", "i", "v", "e">>)
         /\ Contains(d, <<"A", "l", "l", "-", "S", "t", "a", "r">>) -> <<"N", "B", "A", " ", "A", "l", "l", "-", "S", "t", "a", "r">>
      [] ~Contains(d, <<"A", "l", "l", "-", "D", "e", "f", "e", "n", "s", "i", "v", "e">>)
         /\ ~Contains(d, <<"A", "l", "l", "-", "S", "t", "a", "r">>)
         /\ Contains(d, <<"P", "l", "a", "y", "e", "r", " ", "o", "f", " ", "t", "h", "e", " ", "W", "e", "e", "k">>) -> <<"N", "B", "A", " ", "P", "l", "a", "y", "e", "r", " ", "o", "f", " ", "t", "h", "e", " ", "W", "e", "e", "k">>
      [] ~Contains(d, <<"A", "l", "l", "-", "D", "e", "f", "e", "n", "s", "i", "v", "e">>)
         /\ ~Contains(d, <<"A", "l", "l", "-", "S", "t", "a", "r">>)
         /\ ~Contains(d, <<"P", "l", "a", "y", "e", "r", " ", "o", "f", " ", "t", "h", "e", " ", "W", "e", "e", "k">>)
         /\ Contains(d, <<"G", "o", "l", "d", " ", "M", "e", "d", "a", "l">>) -> <<"O", "l", "y", "m", "p", "i", "c", " ", "G", "o", "l", "d", " ", "M", "e", "d", "a", "l">>
      [] OTHER -> d

\* the summary string of an awards response
SummarySent ==
    IF response.body[1] = "str" THEN response.body[2] ELSE response.body[2].summary

AllStarExample ==
    <<"2", " ", "N", "B", "A", " ", "A", "l", "l", "-", "S", "t", "a", "r", " ", "|", " ", "1", " ", "N", "B", "A", " ", "M", "o", "s", "t", " ", "V", "a", "l", "u", "a", "b", "l", "e", " ", "P", "l", "a", "y", "e", "r">>

\* C7: for a non-empty list of raw awards the summary is the " | " join of one
\* "{count} {category}" token per distinct category, every award counted in
\* the category of the first rule that matches, the tokens by descending
\* count and then ascending category name; the counts so add up to the number
\* of raw awards, and two "All-Star Selection" with one "NBA Most Valuable
\* Player" give "2 NBA All-Star | 1 NBA Most Valuable Player".
SummaryRanksCategories ==
    (AwardsFetched /\ upstream # <<>>) =>
        LET categories == {RuleCategory(RawDescription(i)) : i \in 1..Len(upstream)}
            \* <<category, count>>, one pair per distinct category
            counted == {<<c, Cardinality({i \in 1..Len(upstream) :
                                  RuleCategory(RawDescription(i)) = c})>> :
                           c \in categories}
            Before(p, q) == p[2] > q[2] \/ (p[2] = q[2] /\ StrLess(p[1], q[1]))
            rank(p) == 1 + Cardinality({q \in counted : Before(q, p)})
            token(i) == LET p == CHOOSE q \in counted : rank(q) = i
                        IN  IntToStr(p[2]) \o <<" ">> \o p[1]
        IN  /\ response.status = 200
            /\ SummarySent = Join(<<" ", "|", " ">>,
                                  [i \in 1..Cardinality(counted) |-> token(i)])
            /\ request.detailed => response.body[2].details = upstream
            /\ [i \in 1..Len(upstream) |-> RawDescription(i)]
                   = <<AllStarSelection, AllStarSelection, MostValuablePlayer>>
                 => SummarySent = AllStarExample

\* a description with two markers, counted by the first rule, ranked after a
\* category that was seen twice
SummaryRanksCategoriesWitness ==
    /\ AwardsFetched
    /\ ~request.detailed
    /\ [i \in 1..Len(upstream) |-> RawDescription(i)]
           = <<AllStarAllDefensive, PlayerOfTheWeek, PlayerOfTheWeek>>
    /\ response = Ok(JsonStr(<<"2", " ", "N", "B", "A", " ", "P", "l", "a", "y", "e", "r", " ", "o", "f", " ", "t", "h", "e", " ", "W", "e", "e", "k", " ", "|", " ", "1", " ", "A", "l", "l", "-", "D", "e", "f", "e", "n", "s", "i", "v", "e", " ", "T", "e", "a", "m">>))

\* C10: with a player id given and an empty upstream awards list the request
\* succeeds with "" when detailed is false and with {summary: "", details: []}
\* when it is true.
EmptyAwardsGiveEmptyResult ==
    (AwardsFetched /\ upstream = <<>>) =>
        response = IF request.detailed
                   THEN Ok(JsonDict([summary |-> <<>>, details |-> <<>>]))
                   ELSE Ok(JsonStr(<<>>))

----------------------------------------------------------------------------
(* GET /players/stats/advanced/{player_id}                                 *)

MaxTables == 2

AdvancedPlayerIds == {0, 2544}

PerModes == {"Totals", "PerGame", "Per36"}

AdvancedSeasons == {None, Some(""), Some("All"), Some("2020-21")}

SeasonTypes == {"Regular Season", "Pre Season", "Playoffs"}

\* the tables a get_data_frames() may hold, each <<columns, rows>>
DashboardTables ==
    {<<columns, rows>> : columns \in {<<GP, PTS>>},
                         rows \in SeqUpTo(RowsOver(<<GP, PTS>>), 1)}

\* lines 301-309
Params(player_id, per_mode, season, season_type) ==
    LET base == [player_id |-> player_id, season_type_playoffs |-> season_type,
                 per_mode_detailed |-> per_mode]
    IN  IF TruthyStr(season)
        THEN [player_id |-> player_id, season_type_playoffs |-> season_type,
              per_mode_detailed |-> per_mode, season |-> season[1]]
        ELSE base

\* `season or "All"`
SeasonOrAll(season) == IF TruthyStr(season) THEN season[1] ELSE "All"

\* the content of both responses, lines 323-329 and 333-349
AdvancedBody(player_id, per_mode, season, season_type, stats) ==
    [player_id |-> player_id, per_mode |-> per_mode, season |-> SeasonOrAll(season),
     season_type |-> season_type, stats |-> stats]

\* Lines 321-350 on df, a <<"DataFrame", columns, rows>> or a <<"list", tables>>.
\* `not df` raises ValueError on a DataFrame, whatever it holds; it is True on
\* an empty list, which takes the branch of line 322; on a list that is not
\* empty it is False and `df.columns` raises AttributeError.  No value of df
\* gets to line 332.
AdvancedResponse(player_id, per_mode, season, season_type, df) ==
    IF df[1] = "DataFrame" THEN Unhandled("ValueError")
    ELSE IF df[2] = <<>>
    THEN Ok(AdvancedBody(player_id, per_mode, season, season_type, <<>>))
    ELSE Unhandled("AttributeError")

get_player_advanced_stats ==
    /\ response = NoResponse
    /\ \E player_id \in AdvancedPlayerIds, per_mode \in PerModes,
          season \in AdvancedSeasons, season_type \in SeasonTypes :
        LET params == Params(player_id, per_mode, season, season_type)
        IN  /\ request' = [handler |-> "get_player_advanced_stats", player_id |-> player_id,
                           per_mode |-> per_mode, season |-> season,
                           season_type |-> season_type]
            /\ IF season = Some("All")
               THEN \E columns \in FrameColumns :
                    \E rows \in FrameRows(columns) :
                    /\ upstream' = <<"DataFrame", columns, rows>>
                    /\ calls' = <<"get_player_seasons_dashboard", params>>
                    /\ response' = AdvancedResponse(player_id, per_mode, season, season_type,
                                       <<"DataFrame", LowerAll(columns), rows>>)
               ELSE \E tables \in SeqUpTo(DashboardTables, MaxTables) :
                    /\ upstream' = <<"list", tables>>
                    /\ calls' = <<"get_player_dashboard_by_year_over_year", params>>
                    /\ response' = AdvancedResponse(player_id, per_mode, season, season_type,
                                       <<"list", tables>>)

NextAdvanced == get_player_advanced_stats \/ Idle

SpecAdvanced == Init /\ [][NextAdvanced]_vars

AdvancedRan == request.handler = "get_player_advanced_stats"

\* the rows of every table the dashboard call gave back
DashboardRows ==
    IF upstream[1] = "DataFrame"
    THEN {<<upstream[2], upstream[3][i]>> : i \in 1..Len(upstream[3])}
    ELSE UNION {{<<upstream[2][t][1], upstream[2][t][2][i]>> :
                    i \in 1..Len(upstream[2][t][2])} : t \in 1..Len(upstream[2])}

\* the data has no rows, or no gp column, or gp sums to zero
NoDashboardGames ==
    \A r \in DashboardRows :
        \A k \in 1..Len(r[1]) : r[1][k] = GP => r[2][k] = 0

\* C8: on both paths the request succeeds when the dashboard call does, and
\* data with no rows, no gp column or a zero gp sum gives stats = [] next to
\* player_id, per_mode, season and season_type.
AdvancedNeverFails ==
    AdvancedRan =>
        /\ response.status = 200
        /\ NoDashboardGames =>
             /\ DOMAIN response.body =
                  {"player_id", "per_mode", "season", "season_type", "stats"}
             /\ response.body.stats = <<>>

====
